---- MODULE Spec2Model ----
(***************************************************************************)
(* Model of the Tetra PDF utility: the three file-list managers            *)
(* (core/file_manager.py, core/file_manager_desktop.py,                    *)
(* core/file_manager_mobile.py) and the page cache / background render     *)
(* pipeline of the two viewer screens (ui/viewer_screen.py,                *)
(* ui/mobile_viewer_screen.py).                                            *)
(***************************************************************************)
EXTENDS Integers, Sequences, FiniteSets, Bags, TLC

VARIABLES
    fs,              \* file system: path -> "missing" | "valid" | "corrupt" | "unreadable"
    selected_files,  \* manager variant -> its selected_files list
    observers,       \* manager variant -> its list of registered callbacks
    last,            \* the most recent manager call: arguments, state before, responses, notifications
    pdf_document,    \* viewer: the open document (its file), or "None"
    current_pdf_path,\* viewer: path of the loaded PDF, or "None"
    current_page,    \* viewer: page the user is on
    total_pages,     \* viewer: page count of the loaded PDF
    page_cache,      \* viewer: the dict page -> image, as its entries in insertion order
    texture,         \* viewer: the image on screen, or NoImage
    page_label,      \* viewer: what the page label shows
    threads,         \* viewer: bag of the running render threads
    clock,           \* viewer: callbacks scheduled with Clock.schedule_once and no delay
    timers,          \* viewer: delayed preload_adjacent_pages callbacks not yet run
    calls,           \* viewer: how many handler calls the user has made
    directory,       \* backup names: the paths that exist: single files and blocks of names
    backup,          \* backup names: the latest create_backup_filename call
    main_screen      \* MainScreen: its manager's list, the file items shown, the merge flow

fmvars == <<fs, selected_files, observers, last>>

viewvars == <<pdf_document, current_pdf_path, current_page, total_pages, page_cache,
              texture, page_label, threads, clock, timers, calls>>

backupvars == <<directory, backup>>

screenvars == <<main_screen>>

vars == <<fs, selected_files, observers, last, pdf_document, current_pdf_path, current_page,
          total_pages, page_cache, texture, page_label, threads, clock, timers, calls,
          directory, backup, main_screen>>

(***************************************************************************)
(* Bounds of the model.                                                    *)
(***************************************************************************)
MaxArgs == 2        \* longest file_paths argument of add_files
MaxObservers == 2   \* most callbacks registered at once

(***************************************************************************)
(* The paths of the model and the characters of each, so that lower(),     *)
(* endswith() and basename() are computed as the code computes them.       *)
(***************************************************************************)
Paths == {"/a.pdf", "/b.PDF", "/c.pdf", "/n.txt"}

chars(path) ==
    CASE path = "/a.pdf" -> <<"/", "a", ".", "p", "d", "f">>
      [] path = "/b.PDF" -> <<"/", "b", ".", "P", "D", "F">>
      [] path = "/c.pdf" -> <<"/", "c", ".", "p", "d", "f">>
      [] path = "/n.txt" -> <<"/", "n", ".", "t", "x", "t">>

\* the states the environment puts each file in
KindsOf(path) ==
    CASE path = "/a.pdf" -> {"valid", "missing", "corrupt", "unreadable"}
      [] path = "/b.PDF" -> {"valid"}
      [] path = "/c.pdf" -> {"valid"}
      [] path = "/n.txt" -> {"valid", "missing"}

Variants == {"base", "desktop", "mobile"}
Observers == {"o1", "o2"}

LowerChar(c) ==
    CASE c = "P" -> "p"
      [] c = "D" -> "d"
      [] c = "F" -> "f"
      [] OTHER -> c

lower(s) == [i \in 1..Len(s) |-> LowerChar(s[i])]

endswith(s, suffix) ==
    /\ Len(s) >= Len(suffix)
    /\ SubSeq(s, Len(s) - Len(suffix) + 1, Len(s)) = suffix

PdfSuffix == <<".", "p", "d", "f">>

RECURSIVE LastSlash(_, _)
LastSlash(s, i) ==
    IF i = 0 THEN 0
    ELSE IF s[i] = "/" THEN i
    ELSE LastSlash(s, i - 1)

basename(p) == SubSeq(p, LastSlash(p, Len(p)) + 1, Len(p))

\* the extension test without lower()
is_pdf_name_case_sensitive == [p \in Paths |-> endswith(chars(p), PdfSuffix)]

\* path.lower().endswith('.pdf') and os.path.basename(path), tabulated over Paths
is_pdf_name == [p \in Paths |-> endswith(lower(chars(p)), PdfSuffix)]

file_name == [p \in Paths |-> basename(chars(p))]

exists(f, p) == f[p] # "missing"

\* os.access(path, os.R_OK)
_has_file_access(f, p) == f[p] \in {"valid", "corrupt"}

(***************************************************************************)
(* _is_valid_pdf.  The file kinds of the model are told apart the same way *)
(* by the library (fitz / PyPDF2 opens the file) and by the fallback       *)
(* (the first four bytes are %PDF): "valid" is a readable PDF, "corrupt"   *)
(* is readable content that is no PDF, and opening an "unreadable" or      *)
(* "missing" file raises, which the bare except turns into False.          *)
(***************************************************************************)
DesktopIsValidPdf(f, p) == f[p] = "valid"

MobileIsValidPdf(f, p) == _has_file_access(f, p) /\ f[p] = "valid"

BaseIsValidPdf(f, p) == f[p] = "valid"

(***************************************************************************)
(* Responses.  A message is kept as its parts: the fixed text, the counts  *)
(* formatted into it, and the joined list of "<name> (<reason>)" entries.  *)
(***************************************************************************)
Msg(text, count, skipped, details) ==
    [text |-> text, count |-> count, skipped |-> skipped, details |-> details]

FileOperationResponse(result, message) == [result |-> result, message |-> message]

Invalid(path, why) == [name |-> file_name[path], why |-> why]

NoResponse == FileOperationResponse("NONE", Msg("", 0, 0, <<>>))

(***************************************************************************)
(* Python list operations on 0-based indices.                              *)
(***************************************************************************)
\* list.pop() without its index: removes the last element
pop_last(s, index) == SubSeq(s, 1, Len(s) - 1)

pop(s, index) == SubSeq(s, 1, index) \o SubSeq(s, index + 2, Len(s))

insert(s, index, x) ==
    IF index > Len(s) THEN Append(s, x)
    ELSE SubSeq(s, 1, index) \o <<x>> \o SubSeq(s, index + 1, Len(s))

contains(s, x) == \E i \in 1..Len(s) : s[i] = x

(***************************************************************************)
(* The validation loop of add_files, one variant each.  acc carries        *)
(* selected_files, added_files and invalid_files through the loop.         *)
(***************************************************************************)
\* the loop body without the "already added" branch
DesktopAddOneNoDuplicateCheck(f, acc, path) ==
    IF ~exists(f, path)
    THEN [acc EXCEPT !.invalid = Append(@, Invalid(path, "not found"))]
    ELSE IF ~is_pdf_name[path]
    THEN [acc EXCEPT !.invalid = Append(@, Invalid(path, "not a PDF"))]
    ELSE IF ~DesktopIsValidPdf(f, path)
    THEN [acc EXCEPT !.invalid = Append(@, Invalid(path, "corrupted"))]
    ELSE [acc EXCEPT !.sel = Append(@, path), !.added = Append(@, file_name[path])]

DesktopAddOne(f, acc, path) ==
    IF ~exists(f, path)
    THEN [acc EXCEPT !.invalid = Append(@, Invalid(path, "not found"))]
    ELSE IF ~is_pdf_name[path]
    THEN [acc EXCEPT !.invalid = Append(@, Invalid(path, "not a PDF"))]
    ELSE IF ~DesktopIsValidPdf(f, path)
    THEN [acc EXCEPT !.invalid = Append(@, Invalid(path, "corrupted"))]
    ELSE IF contains(acc.sel, path)
    THEN [acc EXCEPT !.invalid = Append(@, Invalid(path, "already added"))]
    ELSE [acc EXCEPT !.sel = Append(@, path), !.added = Append(@, file_name[path])]

MobileAddOne(f, acc, path) ==
    IF ~exists(f, path)
    THEN [acc EXCEPT !.invalid = Append(@, Invalid(path, "not found"))]
    ELSE IF ~_has_file_access(f, path)
    THEN [acc EXCEPT !.invalid = Append(@, Invalid(path, "no permission"))]
    ELSE IF ~is_pdf_name[path]
    THEN [acc EXCEPT !.invalid = Append(@, Invalid(path, "not PDF"))]
    ELSE IF ~MobileIsValidPdf(f, path)
    THEN [acc EXCEPT !.invalid = Append(@, Invalid(path, "corrupted"))]
    ELSE IF contains(acc.sel, path)
    THEN [acc EXCEPT !.invalid = Append(@, Invalid(path, "already added"))]
    ELSE [acc EXCEPT !.sel = Append(@, path), !.added = Append(@, file_name[path])]

\* the base loop body appending a path that is already selected
BaseAddOneAppendsDuplicates(f, acc, path) ==
    IF ~exists(f, path)
    THEN [acc EXCEPT !.invalid = Append(@, Invalid(path, "not found"))]
    ELSE IF ~is_pdf_name[path]
    THEN [acc EXCEPT !.invalid = Append(@, Invalid(path, "not a PDF"))]
    ELSE IF ~BaseIsValidPdf(f, path)
    THEN [acc EXCEPT !.invalid = Append(@, Invalid(path, "corrupted PDF"))]
    ELSE [acc EXCEPT !.sel = Append(@, path), !.added = Append(@, file_name[path])]

BaseAddOne(f, acc, path) ==
    IF ~exists(f, path)
    THEN [acc EXCEPT !.invalid = Append(@, Invalid(path, "not found"))]
    ELSE IF ~is_pdf_name[path]
    THEN [acc EXCEPT !.invalid = Append(@, Invalid(path, "not a PDF"))]
    ELSE IF ~BaseIsValidPdf(f, path)
    THEN [acc EXCEPT !.invalid = Append(@, Invalid(path, "corrupted PDF"))]
    ELSE IF ~contains(acc.sel, path)
    THEN [acc EXCEPT !.sel = Append(@, path), !.added = Append(@, file_name[path])]
    ELSE acc

AddOne(v, f, acc, path) ==
    CASE v = "desktop" -> DesktopAddOne(f, acc, path)
      [] v = "mobile" -> MobileAddOne(f, acc, path)
      [] OTHER -> BaseAddOne(f, acc, path)

RECURSIVE AddLoop(_, _, _, _, _)
AddLoop(v, f, acc, file_paths, i) ==
    IF i > Len(file_paths) THEN acc
    ELSE AddLoop(v, f, AddOne(v, f, acc, file_paths[i]), file_paths, i + 1)

(***************************************************************************)
(* The manager operations.  Each returns the new selected_files, the       *)
(* response, and whether _notify_file_list_observers was called.           *)
(***************************************************************************)
Outcome(sel, resp, notify) == [sel |-> sel, resp |-> resp, notify |-> notify]

DesktopAddResponse(r) ==
    IF Len(r.added) > 0 /\ Len(r.invalid) = 0
    THEN FileOperationResponse("SUCCESS", Msg("Added files", Len(r.added), 0, <<>>))
    ELSE IF Len(r.added) > 0 /\ Len(r.invalid) > 0
    THEN FileOperationResponse("SUCCESS",
            Msg("Added files; skipped invalid", Len(r.added), Len(r.invalid), r.invalid))
    ELSE FileOperationResponse("ERROR", Msg("No valid files added", 0, 0, r.invalid))

MobileAddResponse(r) ==
    IF Len(r.added) > 0 /\ Len(r.invalid) = 0
    THEN FileOperationResponse("SUCCESS", Msg("Added files", Len(r.added), 0, <<>>))
    ELSE IF Len(r.added) > 0 /\ Len(r.invalid) > 0
    THEN FileOperationResponse("SUCCESS",
            Msg("Added files Skipped invalid files", Len(r.added), Len(r.invalid), <<>>))
    ELSE FileOperationResponse("ERROR", Msg("No valid files added", 0, 0, r.invalid))

BaseAddResponse(r) ==
    IF Len(r.added) > 0 /\ Len(r.invalid) = 0
    THEN FileOperationResponse("SUCCESS", Msg("Added files successfully", Len(r.added), 0, <<>>))
    ELSE IF Len(r.added) > 0 /\ Len(r.invalid) > 0
    THEN FileOperationResponse("SUCCESS",
            Msg("Added files. Skipped invalid files", Len(r.added), Len(r.invalid), <<>>))
    ELSE FileOperationResponse("ERROR", Msg("No valid files added. Issues", 0, 0, r.invalid))

\* notifying unconditionally, as PDFFileManager.add_files does
DesktopAddAlwaysNotifies(r) == TRUE

DesktopAddNotifies(r) == Len(r.added) > 0

MobileAddNotifies(r) == Len(r.added) > 0

BaseAddNotifies(r) == TRUE

\* what add_files does after the loop: notify, then build the response
AddFinish(v, r) ==
    CASE v = "desktop" -> Outcome(r.sel, DesktopAddResponse(r), DesktopAddNotifies(r))
      [] v = "mobile" -> Outcome(r.sel, MobileAddResponse(r), MobileAddNotifies(r))
      [] OTHER -> Outcome(r.sel, BaseAddResponse(r), BaseAddNotifies(r))

add_files(v, f, sel, file_paths) ==
    IF Len(file_paths) = 0
    THEN Outcome(sel,
            FileOperationResponse("ERROR",
                Msg(IF v = "mobile" THEN "No files selected" ELSE "No files provided",
                    0, 0, <<>>)),
            FALSE)
    ELSE AddFinish(v, AddLoop(v, f, [sel |-> sel, added |-> <<>>, invalid |-> <<>>],
                              file_paths, 1))

RemoveIndexOk(sel, index) == 0 <= index /\ index < Len(sel)

remove_file(v, sel, index) ==
    IF ~RemoveIndexOk(sel, index)
    THEN Outcome(sel,
            FileOperationResponse("ERROR",
                Msg(CASE v = "desktop" -> "Invalid index"
                      [] v = "mobile" -> "Invalid selection"
                      [] OTHER -> "Invalid file index", 0, 0, <<>>)),
            FALSE)
    ELSE Outcome(pop(sel, index),
            FileOperationResponse("SUCCESS",
                Msg("Removed", 0, 0, <<file_name[sel[index + 1]]>>)),
            TRUE)

\* counting the entries after the list was cleared
clear_files_counts_after(v, sel) ==
    Outcome(<<>>, FileOperationResponse("SUCCESS", Msg("Cleared files", Len(<<>>), 0, <<>>)), TRUE)

clear_files(v, sel) ==
    Outcome(<<>>, FileOperationResponse("SUCCESS", Msg("Cleared files", Len(sel), 0, <<>>)), TRUE)

MoveIndicesOk(sel, from_index, to_index) ==
    /\ 0 <= from_index /\ from_index < Len(sel)
    /\ 0 <= to_index /\ to_index < Len(sel)

\* exchanging the two positions instead of pop and insert
move_file_swap(v, sel, from_index, to_index) ==
    IF ~MoveIndicesOk(sel, from_index, to_index)
    THEN Outcome(sel, FileOperationResponse("ERROR", Msg("Invalid indices", 0, 0, <<>>)), FALSE)
    ELSE Outcome([sel EXCEPT ![from_index + 1] = sel[to_index + 1],
                             ![to_index + 1] = sel[from_index + 1]],
            FileOperationResponse("SUCCESS", Msg("Reordered files", 0, 0, <<>>)),
            TRUE)

move_file(v, sel, from_index, to_index) ==
    IF ~MoveIndicesOk(sel, from_index, to_index)
    THEN Outcome(sel,
            FileOperationResponse("ERROR",
                Msg(IF v = "mobile" THEN "Invalid selection" ELSE "Invalid indices",
                    0, 0, <<>>)),
            FALSE)
    ELSE Outcome(insert(pop(sel, from_index), to_index, sel[from_index + 1]),
            FileOperationResponse("SUCCESS",
                Msg(CASE v = "desktop" -> "Reordered files"
                      [] v = "mobile" -> "Files reordered"
                      [] OTHER -> "File reordered successfully", 0, 0, <<>>)),
            TRUE)

(***************************************************************************)
(* Python lists handed out by the manager.  A handed-out list is a value   *)
(* together with `shared`: whether it is the object self.selected_files    *)
(* itself, so that a change made by the receiver is a change of the        *)
(* manager's list.                                                         *)
(***************************************************************************)
\* handing out self.selected_files itself
no_copy(list) == [value |-> list, shared |-> TRUE]

\* self.selected_files.copy()
copy(list) == [value |-> list, shared |-> FALSE]

\* the callbacks that change the list they are given
Mutating == {"o1"}

\* the list a callback was given, as it is when the callback returns
run_callback(callback, files) ==
    IF callback \in Mutating THEN Append(files, "/n.txt") ELSE files

\* what the receiver's change of a handed-out list does to self.selected_files
after_receiver(sel, handed, changed) == IF handed.shared THEN changed ELSE sel

(***************************************************************************)
(* _notify_file_list_observers: every registered callback, in list order,  *)
(* receives a copy of selected_files; a callback that raises is logged and *)
(* the loop goes on.  The result is what each callback received (files),   *)
(* what it made of it (after), and self.selected_files after the loop.     *)
(***************************************************************************)
\* a loop that stops at the first callback
notify_first_only(callbacks, sel) ==
    [calls |-> [i \in 1..(IF Len(callbacks) > 0 THEN 1 ELSE 0) |->
                    [observer |-> callbacks[i], files |-> sel,
                     after |-> run_callback(callbacks[i], sel)]],
     sel |-> sel]

RECURSIVE notify_loop(_, _, _)
\* the loop from the i-th callback on
notify_loop(callbacks, sel, i) ==
    IF i > Len(callbacks) THEN [calls |-> <<>>, sel |-> sel]
    ELSE LET handed == copy(sel)
             after == run_callback(callbacks[i], handed.value)
             rest == notify_loop(callbacks, after_receiver(sel, handed, after), i + 1)
         IN [calls |-> <<[observer |-> callbacks[i], files |-> handed.value,
                          after |-> after]>> \o rest.calls,
             sel |-> rest.sel]

_notify_file_list_observers(callbacks, sel) == notify_loop(callbacks, sel, 1)

Notifications(callbacks, out) ==
    IF out.notify THEN _notify_file_list_observers(callbacks, out.sel)
    ELSE [calls |-> <<>>, sel |-> out.sel]

(***************************************************************************)
(* get_files: a copy of selected_files                                     *)
(***************************************************************************)
get_files(v, sel) == copy(sel)

(***************************************************************************)
(* merge_pdfs.  The output location is an input of the call:               *)
(*   "writable"     the directory exists and the file can be written       *)
(*   "absent"       the directory does not exist and can be created        *)
(*   "uncreatable"  the directory does not exist and makedirs raises       *)
(*   "readonly"     the directory exists and is not writable               *)
(*   "none"         output_path has no directory part (dirname is '')      *)
(*   "locked_perm"  writable directory, saving raises PermissionError      *)
(*   "locked_other" writable directory, saving raises another exception    *)
(* The result carries the response and what happened to the output:        *)
(* "untouched", "dir_created" (makedirs ran, nothing saved), "truncated"   *)
(* (opened for writing, nothing written) or "written" with the merged      *)
(* files in order.                                                         *)
(***************************************************************************)
OutDirKinds ==
    {"writable", "absent", "uncreatable", "readonly", "none", "locked_perm", "locked_other"}

Merged(resp, output, content) == [resp |-> resp, output |-> output, content |-> content]

MergeError(text, name) == FileOperationResponse("ERROR", Msg(text, 0, 0, name))

\* position (1-based) of the first selected file the source loop fails on, 0 if none
RECURSIVE FirstBadSource(_, _, _)
FirstBadSource(f, sel, i) ==
    IF i > Len(sel) THEN 0
    ELSE IF f[sel[i]] # "valid" THEN i
    ELSE FirstBadSource(f, sel, i + 1)

\* the desktop merge with the mobile manager's write-permission answer
DesktopMergeFromDenied(f, sel, outdir, bad) ==
    IF outdir = "readonly"
    THEN Merged(FileOperationResponse("PERMISSION_DENIED",
                    Msg("No write permission for output location", 0, 0, <<>>)),
                "untouched", <<>>)
    ELSE Merged(MergeError("Merge failed", <<>>), "untouched", <<>>)

\* desktop merge_pdfs from the source loop on; bad is the first source it fails on
DesktopMergeFrom(f, sel, outdir, bad) ==
    IF bad > 0 /\ ~exists(f, sel[bad])
    THEN Merged(MergeError("Missing", <<file_name[sel[bad]]>>), "untouched", <<>>)
    ELSE IF bad > 0
    THEN Merged(MergeError("Merge failed", <<>>), "untouched", <<>>)
    ELSE IF outdir \in {"none", "uncreatable"}
    THEN Merged(MergeError("Merge failed", <<>>), "untouched", <<>>)
    ELSE IF outdir \in {"readonly", "locked_perm", "locked_other"}
    THEN Merged(MergeError("Merge failed", <<>>), "untouched", <<>>)
    ELSE Merged(FileOperationResponse("SUCCESS",
                    Msg("Merged PDFs to", Len(sel), 0, <<>>)),
                "written", sel)

DesktopMergePdfs(f, lib, sel, outdir) ==
    IF ~lib
    THEN Merged(MergeError("PyMuPDF not installed", <<>>), "untouched", <<>>)
    ELSE IF Len(sel) < 2
    THEN Merged(MergeError("Need at least 2 PDFs to merge", <<>>), "untouched", <<>>)
    ELSE DesktopMergeFrom(f, sel, outdir, FirstBadSource(f, sel, 1))

\* a source loop that skips the files that are gone and merges the others
MobileMergeFromSkipsMissing(f, sel, outdir, bad) ==
    IF outdir \in {"locked_perm", "locked_other"}
    THEN Merged(MergeError("Merge failed", <<>>), "untouched", <<>>)
    ELSE Merged(FileOperationResponse("SUCCESS",
                    Msg("Successfully merged PDFs", Len(sel), 0, <<>>)),
                "written", SelectSeq(sel, LAMBDA p : exists(f, p)))

\* mobile merge_pdfs from the source loop on; bad is the first source it fails on
MobileMergeFrom(f, sel, outdir, bad) ==
    IF bad > 0 /\ ~exists(f, sel[bad])
    THEN Merged(MergeError("File missing", <<file_name[sel[bad]]>>), "untouched", <<>>)
    ELSE IF bad > 0 /\ ~_has_file_access(f, sel[bad])
    THEN Merged(FileOperationResponse("PERMISSION_DENIED",
                    Msg("No access to", 0, 0, <<file_name[sel[bad]]>>)),
                "untouched", <<>>)
    ELSE IF bad > 0
    THEN Merged(MergeError("Merge failed", <<>>), "untouched", <<>>)
    ELSE IF outdir = "locked_perm"
    THEN Merged(FileOperationResponse("PERMISSION_DENIED",
                    Msg("Permission denied accessing files", 0, 0, <<>>)),
                "untouched", <<>>)
    ELSE IF outdir = "locked_other"
    THEN Merged(MergeError("Merge failed", <<>>), "untouched", <<>>)
    ELSE Merged(FileOperationResponse("SUCCESS",
                    Msg("Successfully merged PDFs", Len(sel), 0, <<>>)),
                "written", sel)

\* the write-access test placed before the test of the number of files
MobileMergePdfsPermissionFirst(f, lib, sel, outdir) ==
    IF ~lib
    THEN Merged(MergeError("PDF library not available", <<>>), "untouched", <<>>)
    ELSE IF outdir \in {"absent", "uncreatable", "readonly", "none"}
    THEN Merged(FileOperationResponse("PERMISSION_DENIED",
                    Msg("No write permission for output location", 0, 0, <<>>)),
                "untouched", <<>>)
    ELSE IF Len(sel) < 2
    THEN Merged(MergeError("Select at least 2 PDFs to merge", <<>>), "untouched", <<>>)
    ELSE MobileMergeFrom(f, sel, outdir, FirstBadSource(f, sel, 1))

MobileMergePdfs(f, lib, sel, outdir) ==
    IF ~lib
    THEN Merged(MergeError("PDF library not available", <<>>), "untouched", <<>>)
    ELSE IF Len(sel) < 2
    THEN Merged(MergeError("Select at least 2 PDFs to merge", <<>>), "untouched", <<>>)
    ELSE IF outdir \in {"absent", "uncreatable", "readonly", "none"}
    THEN Merged(FileOperationResponse("PERMISSION_DENIED",
                    Msg("No write permission for output location", 0, 0, <<>>)),
                "untouched", <<>>)
    ELSE MobileMergeFrom(f, sel, outdir, FirstBadSource(f, sel, 1))

\* the base merge with os.makedirs outside the try block
BaseMergeFromMakedirsUnguarded(f, sel, outdir, bad) ==
    IF bad > 0
    THEN Merged(MergeError("Merge failed", <<>>), "untouched", <<>>)
    ELSE IF outdir = "uncreatable"
    THEN Merged(FileOperationResponse("RAISED", Msg("OSError", 0, 0, <<>>)), "untouched", <<>>)
    ELSE IF outdir \in {"readonly", "locked_perm", "locked_other"}
    THEN Merged(MergeError("Merge failed", <<>>), "untouched", <<>>)
    ELSE Merged(FileOperationResponse("SUCCESS",
                    Msg("Successfully merged files to", Len(sel), 0, <<>>)),
                "written", sel)

\* base merge_pdfs from the source loop on; bad is the first source it fails on
BaseMergeFrom(f, sel, outdir, bad) ==
    IF bad > 0 /\ ~exists(f, sel[bad])
    THEN Merged(MergeError("File not found", <<file_name[sel[bad]]>>), "untouched", <<>>)
    ELSE IF bad > 0
    THEN Merged(MergeError("Merge failed", <<>>), "untouched", <<>>)
    ELSE IF outdir = "uncreatable"
    THEN Merged(MergeError("Merge failed", <<>>), "untouched", <<>>)
    ELSE IF outdir \in {"readonly", "locked_perm", "locked_other"}
    THEN Merged(MergeError("Merge failed", <<>>), "untouched", <<>>)
    ELSE Merged(FileOperationResponse("SUCCESS",
                    Msg("Successfully merged files to", Len(sel), 0, <<>>)),
                "written", sel)

BaseMergePdfs(f, lib, sel, outdir) ==
    IF ~lib
    THEN Merged(MergeError("PyPDF2 library not available", <<>>), "untouched", <<>>)
    ELSE IF Len(sel) < 2
    THEN Merged(MergeError("Need at least 2 files to merge", <<>>), "untouched", <<>>)
    ELSE BaseMergeFrom(f, sel, outdir, FirstBadSource(f, sel, 1))

merge_pdfs(v, f, lib, sel, outdir) ==
    CASE v = "desktop" -> DesktopMergePdfs(f, lib, sel, outdir)
      [] v = "mobile" -> MobileMergePdfs(f, lib, sel, outdir)
      [] OTHER -> BaseMergePdfs(f, lib, sel, outdir)

(***************************************************************************)
(* add_observer / remove_observer                                          *)
(***************************************************************************)
add_observer(callbacks, callback) == Append(callbacks, callback)

RECURSIVE IndexOf(_, _, _)
IndexOf(s, x, i) ==
    IF i > Len(s) THEN 0
    ELSE IF s[i] = x THEN i
    ELSE IndexOf(s, x, i + 1)

remove_observer(callbacks, callback) ==
    IF contains(callbacks, callback)
    THEN pop(callbacks, IndexOf(callbacks, callback, 1) - 1)
    ELSE callbacks

(***************************************************************************)
(* State machine of the managers.  The three variants are driven by the    *)
(* same calls under the same file system; `last` records the latest call.  *)
(***************************************************************************)
ArgLists == UNION {[1..n -> Paths] : n \in 0..MaxArgs}

Indices(sel) == -1..Len(sel)

ByVariant(b, d, m) == [base |-> b, desktop |-> d, mobile |-> m]

NoArgs == [file_paths |-> <<>>, index |-> 0, to_index |-> 0, lib |-> TRUE, outdir |-> "writable"]

\* notify: _notify_file_list_observers was called; notified: what each callback got
\* returned: the list get_files gave; changed: what its caller made of that list
Call(op, args, before, resp, notify, notified, output, content, returned, changed) ==
    [op |-> op, args |-> args, before |-> before, resp |-> resp, notify |-> notify,
     notified |-> notified, output |-> output, content |-> content,
     returned |-> returned, changed |-> changed]

Nothing == ByVariant(<<>>, <<>>, <<>>)

Untouched == ByVariant("untouched", "untouched", "untouched")

NoCall ==
    Call("none", NoArgs, Nothing, ByVariant(NoResponse, NoResponse, NoResponse),
         ByVariant(FALSE, FALSE, FALSE), Nothing, Untouched, Nothing, Nothing, Nothing)

InitManagers ==
    /\ fs = [p \in Paths |-> "valid"]
    /\ selected_files = Nothing
    /\ observers = Nothing
    /\ last = NoCall

\* a list operation applied to every variant: b, d and m are their Outcomes
ListCall(op, args, b, d, m) ==
    \E nb \in {Notifications(observers.base, b)},
       nd \in {Notifications(observers.desktop, d)},
       nm \in {Notifications(observers.mobile, m)} :
        /\ selected_files' = ByVariant(nb.sel, nd.sel, nm.sel)
        /\ last' = Call(op, args, selected_files,
                        ByVariant(b.resp, d.resp, m.resp),
                        ByVariant(b.notify, d.notify, m.notify),
                        ByVariant(nb.calls, nd.calls, nm.calls),
                        Untouched, Nothing, Nothing, Nothing)
        /\ UNCHANGED <<fs, observers>>
        /\ UNCHANGED <<viewvars, backupvars, screenvars>>

AddFiles ==
    \E file_paths \in ArgLists :
      \E b \in {add_files("base", fs, selected_files.base, file_paths)},
         d \in {add_files("desktop", fs, selected_files.desktop, file_paths)},
         m \in {add_files("mobile", fs, selected_files.mobile, file_paths)} :
        ListCall("add_files", [NoArgs EXCEPT !.file_paths = file_paths], b, d, m)

RemoveFile ==
    \E index \in Indices(selected_files.desktop) :
      \E b \in {remove_file("base", selected_files.base, index)},
         d \in {remove_file("desktop", selected_files.desktop, index)},
         m \in {remove_file("mobile", selected_files.mobile, index)} :
        ListCall("remove_file", [NoArgs EXCEPT !.index = index], b, d, m)

MoveFile ==
    \E from_index \in Indices(selected_files.desktop) :
      \E to_index \in Indices(selected_files.desktop) :
        \E b \in {move_file("base", selected_files.base, from_index, to_index)},
           d \in {move_file("desktop", selected_files.desktop, from_index, to_index)},
           m \in {move_file("mobile", selected_files.mobile, from_index, to_index)} :
          ListCall("move_file", [NoArgs EXCEPT !.index = from_index, !.to_index = to_index],
                   b, d, m)

ClearFiles ==
    \E b \in {clear_files("base", selected_files.base)},
       d \in {clear_files("desktop", selected_files.desktop)},
       m \in {clear_files("mobile", selected_files.mobile)} :
        ListCall("clear_files", NoArgs, b, d, m)

MergePdfs ==
    \E lib \in BOOLEAN, outdir \in OutDirKinds :
        \* without the library nothing else is read: one output kind stands for all
        /\ lib \/ outdir = "writable"
        /\ \E b \in {merge_pdfs("base", fs, lib, selected_files.base, outdir)},
              d \in {merge_pdfs("desktop", fs, lib, selected_files.desktop, outdir)},
              m \in {merge_pdfs("mobile", fs, lib, selected_files.mobile, outdir)} :
              /\ last' = Call("merge_pdfs", [NoArgs EXCEPT !.lib = lib, !.outdir = outdir],
                              selected_files,
                              ByVariant(b.resp, d.resp, m.resp),
                              ByVariant(FALSE, FALSE, FALSE),
                              Nothing,
                              ByVariant(b.output, d.output, m.output),
                              ByVariant(b.content, d.content, m.content),
                              Nothing, Nothing)
              /\ UNCHANGED <<fs, selected_files, observers>>
              /\ UNCHANGED <<viewvars, backupvars, screenvars>>

\* what the caller of get_files does with the list it got
change_list(list, how) ==
    CASE how = "keep" -> list
      [] how = "clear" -> <<>>
      [] OTHER -> Append(list, "/n.txt")

\* get_files, and its caller changing the list it got
GetFiles ==
    \E how \in {"keep", "clear", "append"} :
      \E b \in {get_files("base", selected_files.base)},
         d \in {get_files("desktop", selected_files.desktop)},
         m \in {get_files("mobile", selected_files.mobile)} :
        /\ selected_files' =
              ByVariant(after_receiver(selected_files.base, b, change_list(b.value, how)),
                        after_receiver(selected_files.desktop, d, change_list(d.value, how)),
                        after_receiver(selected_files.mobile, m, change_list(m.value, how)))
        /\ last' = Call("get_files", NoArgs, selected_files,
                        ByVariant(NoResponse, NoResponse, NoResponse),
                        ByVariant(FALSE, FALSE, FALSE), Nothing, Untouched, Nothing,
                        ByVariant(b.value, d.value, m.value),
                        ByVariant(change_list(b.value, how), change_list(d.value, how),
                                  change_list(m.value, how)))
        /\ UNCHANGED <<fs, observers>>
        /\ UNCHANGED <<viewvars, backupvars, screenvars>>

AddObserver ==
    \E callback \in Observers :
        /\ Len(observers.desktop) < MaxObservers
        /\ observers' = ByVariant(add_observer(observers.base, callback),
                                  add_observer(observers.desktop, callback),
                                  add_observer(observers.mobile, callback))
        /\ last' = NoCall
        /\ UNCHANGED <<fs, selected_files>>
        /\ UNCHANGED <<viewvars, backupvars, screenvars>>

RemoveObserver ==
    \E callback \in Observers :
        /\ observers' = ByVariant(remove_observer(observers.base, callback),
                                  remove_observer(observers.desktop, callback),
                                  remove_observer(observers.mobile, callback))
        /\ last' = NoCall
        /\ UNCHANGED <<fs, selected_files>>
        /\ UNCHANGED <<viewvars, backupvars, screenvars>>

\* the environment creates, deletes, damages or protects a file
FsChange ==
    \E p \in Paths :
      \E k \in KindsOf(p) :
        /\ k # fs[p]
        /\ fs' = [fs EXCEPT ![p] = k]
        /\ last' = NoCall
        /\ UNCHANGED <<selected_files, observers>>
        /\ UNCHANGED <<viewvars, backupvars, screenvars>>

(***************************************************************************)
(* create_backup_filename (core/file_manager_desktop.py) and               *)
(* create_mobile_backup_filename (core/file_manager_mobile.py).  Paths are *)
(* sequences of characters; os.path.dirname, basename, splitext and join,  *)
(* strftime and the number formats are computed as Python computes them.   *)
(***************************************************************************)
DesktopCounterLimit == 1000   \* while counter < 1000
MobileCounterLimit == 100     \* while counter < 100

counter_limit(ui) == IF ui = "desktop" THEN DesktopCounterLimit ELSE MobileCounterLimit

DigitChar(d) ==
    CASE d = 0 -> "0" [] d = 1 -> "1" [] d = 2 -> "2" [] d = 3 -> "3" [] d = 4 -> "4"
      [] d = 5 -> "5" [] d = 6 -> "6" [] d = 7 -> "7" [] d = 8 -> "8" [] d = 9 -> "9"

RECURSIVE Digits(_)
\* str(n) for n >= 0
Digits(n) == IF n < 10 THEN <<DigitChar(n)>> ELSE Digits(n \div 10) \o <<DigitChar(n % 10)>>

RECURSIVE ZeroPad(_, _)
ZeroPad(s, width) == IF Len(s) >= width THEN s ELSE ZeroPad(<<"0">> \o s, width)

\* the moments datetime.now() returns
Times == {[year |-> 2026, month |-> 11, day |-> 4, hour |-> 9, minute |-> 30, second |-> 7]}

\* strftime("%Y%m%d_%H%M%S") on desktop, strftime("%m%d_%H%M") on mobile
strftime(ui, now) ==
    IF ui = "desktop"
    THEN ZeroPad(Digits(now.year), 4) \o ZeroPad(Digits(now.month), 2)
            \o ZeroPad(Digits(now.day), 2) \o <<"_">> \o ZeroPad(Digits(now.hour), 2)
            \o ZeroPad(Digits(now.minute), 2) \o ZeroPad(Digits(now.second), 2)
    ELSE ZeroPad(Digits(now.month), 2) \o ZeroPad(Digits(now.day), 2) \o <<"_">>
            \o ZeroPad(Digits(now.hour), 2) \o ZeroPad(Digits(now.minute), 2)

\* f"{counter:03d}" on desktop, f"{counter}" on mobile
format_counter(ui, counter) ==
    IF ui = "desktop" THEN ZeroPad(Digits(counter), 3) ELSE Digits(counter)

RECURSIVE rstrip_slashes(_)
rstrip_slashes(s) ==
    IF s # <<>> /\ s[Len(s)] = "/" THEN rstrip_slashes(SubSeq(s, 1, Len(s) - 1)) ELSE s

\* os.path.dirname
dirname(p) ==
    LET head == SubSeq(p, 1, LastSlash(p, Len(p)))
    IN IF \A i \in 1..Len(head) : head[i] = "/" THEN head ELSE rstrip_slashes(head)

RECURSIVE LastDot(_, _)
LastDot(s, i) ==
    IF i = 0 THEN 0
    ELSE IF s[i] = "." THEN i
    ELSE LastDot(s, i - 1)

\* os.path.splitext of a file name: a dot with only dots before it starts no extension
splitext(name) ==
    LET dot == LastDot(name, Len(name))
    IN IF dot > 0 /\ \E j \in 1..(dot - 1) : name[j] # "."
       THEN [root |-> SubSeq(name, 1, dot - 1), ext |-> SubSeq(name, dot, Len(name))]
       ELSE [root |-> name, ext |-> <<>>]

\* os.path.join of two components
join(a, b) ==
    IF b # <<>> /\ b[1] = "/" THEN b
    ELSE IF a = <<>> \/ a[Len(a)] = "/" THEN a \o b
    ELSE a \o <<"/">> \o b

\* os.path.join(file_directory, f"{base_name}_{tag}{file_extension}")
tagged_path(original_path, tag) ==
    LET parts == splitext(basename(original_path))
    IN join(dirname(original_path), parts.root \o <<"_">> \o tag \o parts.ext)

MergedPdf == <<"/", "o", "/", "m", ".", "p", "d", "f">>   \* /o/m.pdf
Readme == <<"r">>                                        \* r: no directory, no extension

OriginalPaths == {MergedPdf, Readme}

Uis == {"desktop", "mobile"}

\* the numbered names of original_path, from from_counter to to_counter
numbered(ui, original_path, from_counter, to_counter) ==
    {tagged_path(original_path, format_counter(ui, c)) : c \in from_counter..to_counter}

\* the names earlier runs have left: every numbered name but the first and the last
Block == [ui \in Uis |-> numbered(ui, MergedPdf, 2, counter_limit(ui) - 2)]

\* os.path.exists; entries.files are the single files, entries.blocks the blocks there
path_exists(entries, p) ==
    \/ p \in entries.files
    \/ \E ui \in entries.blocks : p \in Block[ui]

\* the counters of the collision loop whose name is free
free_counters(ui, entries, original_path) ==
    {counter \in 1..(counter_limit(ui) - 1) :
        ~path_exists(entries, tagged_path(original_path, format_counter(ui, counter)))}

\* a collision loop that tests only the first 9 numbers
backup_filename_short_loop(ui, entries, original_path, now) ==
    IF ~path_exists(entries, original_path) THEN original_path
    ELSE IF ~path_exists(entries, tagged_path(original_path, strftime(ui, now)))
    THEN tagged_path(original_path, strftime(ui, now))
    ELSE LET free == {c \in 1..9 :
                        ~path_exists(entries, tagged_path(original_path, format_counter(ui, c)))}
         IN IF free = {} THEN original_path
            ELSE tagged_path(original_path,
                    format_counter(ui, CHOOSE c \in free : \A d \in free : c <= d))

\* create_backup_filename (desktop) and create_mobile_backup_filename (mobile)
backup_filename(ui, entries, original_path, now) ==
    IF ~path_exists(entries, original_path) THEN original_path
    ELSE IF ~path_exists(entries, tagged_path(original_path, strftime(ui, now)))
    THEN tagged_path(original_path, strftime(ui, now))
    ELSE LET free == free_counters(ui, entries, original_path)
         IN IF free = {} THEN original_path
            ELSE tagged_path(original_path,
                    format_counter(ui, CHOOSE c \in free : \A d \in free : c <= d))

create_backup_filename(entries, original_path, now) ==
    backup_filename("desktop", entries, original_path, now)

create_mobile_backup_filename(entries, original_path, now) ==
    backup_filename("mobile", entries, original_path, now)

(***************************************************************************)
(* State machine of the backup names: the environment creates and deletes  *)
(* files, and the functions are called on what is there.                   *)
(***************************************************************************)
\* the files the environment creates and deletes one at a time
SingleFiles ==
    OriginalPaths
        \cup {tagged_path(MergedPdf, strftime(ui, now)) : ui \in Uis, now \in Times}
        \cup UNION {numbered(ui, MergedPdf, 1, 1) : ui \in Uis}
        \cup UNION {numbered(ui, MergedPdf, counter_limit(ui) - 1, counter_limit(ui) - 1) :
                        ui \in Uis}

NoBackup == [ui |-> "none", original_path |-> <<>>, now |-> <<>>, result |-> <<>>]

InitBackup ==
    /\ directory = [files |-> {}, blocks |-> {}]
    /\ backup = NoBackup

CreateFile ==
    \E p \in SingleFiles \ directory.files :
        /\ directory' = [directory EXCEPT !.files = @ \cup {p}]
        /\ backup' = NoBackup
        /\ UNCHANGED <<fmvars, viewvars, screenvars>>

DeleteFile ==
    \E p \in SingleFiles \cap directory.files :
        /\ directory' = [directory EXCEPT !.files = @ \ {p}]
        /\ backup' = NoBackup
        /\ UNCHANGED <<fmvars, viewvars, screenvars>>

\* earlier runs have left every numbered name but the first and the last
FillNumbered ==
    \E ui \in Uis \ directory.blocks :
        /\ directory' = [directory EXCEPT !.blocks = @ \cup {ui}]
        /\ backup' = NoBackup
        /\ UNCHANGED <<fmvars, viewvars, screenvars>>

CreateBackupFilename ==
    \E original_path \in OriginalPaths, now \in Times :
        /\ backup' = [ui |-> "desktop", original_path |-> original_path, now |-> now,
                      result |-> create_backup_filename(directory, original_path, now)]
        /\ UNCHANGED directory
        /\ UNCHANGED <<fmvars, viewvars, screenvars>>

CreateMobileBackupFilename ==
    \E original_path \in OriginalPaths, now \in Times :
        /\ backup' = [ui |-> "mobile", original_path |-> original_path, now |-> now,
                      result |-> create_mobile_backup_filename(directory, original_path, now)]
        /\ UNCHANGED directory
        /\ UNCHANGED <<fmvars, viewvars, screenvars>>

(***************************************************************************)
(* The viewer screens (ui/viewer_screen.py, ui/mobile_viewer_screen.py).   *)
(* ui is "desktop" or "mobile".  The UI thread runs the handlers and the   *)
(* Clock callbacks; each render thread runs _render_page_thread, whose     *)
(* steps interleave with the UI thread and with the other render threads.  *)
(* A handler or a callback is one step.  A render thread takes one step    *)
(* to render, four in add_to_cache (the size test, the choice of what to   *)
(* evict, its removal, the insertion) and one to schedule the display.     *)
(***************************************************************************)
LongPages == 6      \* pages of the long document
ShortPages == 1     \* pages of the other files
MaxCalls == 3       \* handler calls the user makes in one run of the desktop viewer
MaxMobileCalls == 4 \* handler calls the user makes in one run of the mobile viewer
MaxThreads == 2     \* most desktop render threads alive at once
MaxMobileThreads == 3  \* most mobile render threads alive at once
MaxClock == 2       \* most callbacks waiting in the Clock
MaxTimers == 1      \* most delayed preload callbacks waiting

\* self.max_cache_size
max_cache_size(ui) == IF ui = "desktop" THEN 5 ELSE 2

ViewerFiles == {"/long.pdf", "/short.pdf", "/pic.png", "/bad.pdf", "/gone.pdf"}

\* what os.path.exists and fitz.open find at a path
FileExists(path) == path # "/gone.pdf"

\* fitz.open(path) returns a document; on "/bad.pdf" it raises
Opens(path) == path # "/bad.pdf"

\* self.pdf_document after self.pdf_document.close() with no new document assigned
closed(doc) == IF doc = "None" THEN "None" ELSE "Closed"

is_pdf(doc) == doc \in {"/long.pdf", "/short.pdf"}

\* len(document)
PageCount(doc) == IF doc = "/long.pdf" THEN LongPages ELSE ShortPages

CallLimit(ui) == IF ui = "desktop" THEN MaxCalls ELSE MaxMobileCalls

ThreadLimit(ui) == IF ui = "desktop" THEN MaxThreads ELSE MaxMobileThreads

PageArgs == -1..(LongPages + 1)

NoImage == [doc |-> "None", page |-> 0]

\* the bytes a render of a page of a document produces
Image(doc, page) == [doc |-> doc, page |-> page]

Label(kind, page, total, msg) == [kind |-> kind, page |-> page, total |-> total, msg |-> msg]

\* show_error sets the label to the message
ErrorLabel(msg) == Label("error", 0, 0, msg)

\* a Clock callback
\* origin: "handler", or the origin of the thread that scheduled it
Callback(fn, page, image, msg, origin) ==
    [fn |-> fn, page |-> page, image |-> image, msg |-> msg, origin |-> origin]

\* origin: "navigation" for a thread render_page_async started, "preload" for one
\* preload_adjacent_pages started; victims: the pages add_to_cache chose to remove
Thread(pc, page, image, origin, victims) ==
    [pc |-> pc, page |-> page, image |-> image, origin |-> origin, victims |-> victims]

\* page_number in self.page_cache
InCache(cache, page_number) == \E i \in 1..Len(cache) : cache[i].page = page_number

\* self.page_cache[page_number]
CacheGet(cache, page_number) ==
    cache[CHOOSE i \in 1..Len(cache) : cache[i].page = page_number].image

\* self.page_cache[page_number] = image_data: a present key keeps its place
CachePut(cache, page_number, image_data) ==
    IF InCache(cache, page_number)
    THEN [i \in 1..Len(cache) |->
            IF cache[i].page = page_number
            THEN [page |-> page_number, image |-> image_data] ELSE cache[i]]
    ELSE Append(cache, [page |-> page_number, image |-> image_data])

\* the entries of the cache whose page satisfies keep, in their order
CacheKeep(cache, keep) == SelectSeq(cache, LAMBDA e : e.page \in keep)

Abs(n) == IF n < 0 THEN -n ELSE n

CachedPages(cache) == {cache[i].page : i \in 1..Len(cache)}

\* an eviction that always pops the oldest entry
DesktopEvictOldest(cache, current) ==
    IF Len(cache) > 0 THEN [victims |-> <<>>, cache |-> Tail(cache)]
    ELSE [victims |-> <<>>, cache |-> cache]

\* the eviction of the desktop add_to_cache when the cache is full: the page it
\* chooses to pop, or the oldest entry popped when every page is close
DesktopEvict(cache, current) ==
    LET pages_to_remove == {p \in CachedPages(cache) : Abs(p - current) > 2}
        far == {p \in pages_to_remove :
                  \A q \in pages_to_remove : Abs(q - current) <= Abs(p - current)}
        \* max() returns the first of the furthest pages in the dict's order
        first == CHOOSE i \in 1..Len(cache) :
                    /\ cache[i].page \in far
                    /\ \A j \in 1..(i - 1) : cache[j].page \notin far
    IN  IF pages_to_remove # {}
        THEN [victims |-> <<cache[first].page>>, cache |-> cache]
        ELSE IF Len(cache) > 0 THEN [victims |-> <<>>, cache |-> Tail(cache)]
        ELSE [victims |-> <<>>, cache |-> cache]

\* the eviction of the mobile add_to_cache when the cache is full: the list
\* pages_to_remove it builds
MobileEvict(cache, current) ==
    [victims |-> [i \in 1..Len(SelectSeq(cache, LAMBDA e : e.page # current)) |->
                    SelectSeq(cache, LAMBDA e : e.page # current)[i].page],
     cache |-> cache]

RECURSIVE delete_each(_, _)
\* self.page_cache.pop(p) / del self.page_cache[p] for each chosen page: a page
\* that is no longer a key raises KeyError
delete_each(cache, victims) ==
    IF victims = <<>> THEN [cache |-> cache, raised |-> FALSE]
    ELSE IF ~InCache(cache, Head(victims)) THEN [cache |-> cache, raised |-> TRUE]
    ELSE delete_each(CacheKeep(cache, CachedPages(cache) \ {Head(victims)}), Tail(victims))

Evict(ui, cache, current) ==
    IF ui = "desktop" THEN DesktopEvict(cache, current) ELSE MobileEvict(cache, current)

\* mobile cleanup_old_cache
cleanup_old_cache(cache, current, total) ==
    CacheKeep(cache, {current}
                     \cup (IF current > 1 THEN {current - 1} ELSE {})
                     \cup (IF current < total THEN {current + 1} ELSE {}))

\* update_page_label
update_page_label(current, total) ==
    IF total > 0 THEN Label("counter", current, total, "") ELSE Label("none", 0, 0, "")

\* render_page_async: the callback it schedules and the pages it starts threads for
render_page_async(cache, page_number) ==
    IF InCache(cache, page_number)
    THEN [sched |-> <<Callback("display_cached_page", page_number, NoImage, "", "handler")>>,
          start |-> {}]
    ELSE [sched |-> <<Callback("show_loading", 0, NoImage, "", "handler")>>,
          start |-> {page_number}]

\* the threads desktop preload_adjacent_pages starts
PreloadPages(cache, path, doc, current, total) ==
    \* on a closed document the test raises and the callback ends
    IF path = "None" \/ doc \in {"None", "Closed"} THEN {}
    ELSE (IF current < total /\ ~InCache(cache, current + 1) THEN {current + 1} ELSE {})
         \cup (IF current > 1 /\ ~InCache(cache, current - 1) THEN {current - 1} ELSE {})

\* Thread(target=self._render_page_thread, args=(page,)).start() for each page
Started(pages, origin) ==
    SetToBag({Thread("start", p, NoImage, origin, <<>>) : p \in pages})

InitViewer ==
    /\ pdf_document = "None"
    /\ current_pdf_path = "None"
    /\ current_page = 1
    /\ total_pages = 0
    /\ page_cache = <<>>
    /\ texture = NoImage
    /\ page_label = Label("none", 0, 0, "")
    /\ threads = EmptyBag
    /\ clock = <<>>
    /\ timers = 0
    /\ calls = 0

\* one running thread t becomes t2
Step(t, t2) == (threads (-) SetToBag({t})) (+) SetToBag({t2})

\* thread t returns
Finish(t) == threads (-) SetToBag({t})

\* the part show_next, show_previous and jump_to_page share once the page is chosen
Navigate(ui, new_page) ==
    \E r \in {render_page_async(page_cache, new_page)} :
        /\ calls < CallLimit(ui)
        /\ Len(clock) < MaxClock
        /\ BagCardinality(threads) + Cardinality(r.start) <= ThreadLimit(ui)
        /\ calls' = calls + 1
        /\ current_page' = new_page
        /\ page_label' = update_page_label(new_page, total_pages)
        /\ clock' = clock \o r.sched
        /\ threads' = threads (+) Started(r.start, "navigation")
        /\ IF ui = "desktop"
           THEN /\ timers < MaxTimers
                /\ timers' = timers + 1
                /\ page_cache' = page_cache
           ELSE /\ timers' = timers
                /\ page_cache' = cleanup_old_cache(page_cache, new_page, total_pages)
        /\ UNCHANGED <<pdf_document, current_pdf_path, total_pages, texture>>
        /\ UNCHANGED <<fmvars, backupvars, screenvars>>

ShowNext(ui) ==
    /\ current_page < total_pages
    /\ Navigate(ui, current_page + 1)

ShowPrevious(ui) ==
    /\ current_page > 1
    /\ Navigate(ui, current_page - 1)

\* the range test of jump_to_page, without which the page is taken as given
any_page(page_number, total) == TRUE

\* the range test of jump_to_page
valid_page(page_number, total) == 1 <= page_number /\ page_number <= total

jump_to_page(ui, page_number) ==
    /\ valid_page(page_number, total_pages)
    /\ Navigate(ui, page_number)

JumpToPage(ui) == \E page_number \in PageArgs : jump_to_page(ui, page_number)

\* the keys on_key_down tells apart: 276 left, 275 right, 278 home, 279 end
Keys == {"left", "right", "home", "end"}

\* desktop on_key_down: nothing without a document, else the key's navigation
KeyDown ==
    \E key \in Keys :
        /\ pdf_document # "None"
        /\ \/ key = "left" /\ ShowPrevious("desktop")
           \/ key = "right" /\ ShowNext("desktop")
           \/ key = "home" /\ jump_to_page("desktop", 1)
           \/ key = "end" /\ jump_to_page("desktop", total_pages)

LoadPdf(ui) ==
    \E path \in ViewerFiles, closed_raises \in BOOLEAN :
      /\ calls < CallLimit(ui)
      /\ calls' = calls + 1
      /\
        IF ~FileExists(path)
        THEN /\ page_label' = ErrorLabel("PDF file not found")
             /\ texture' = NoImage
             /\ UNCHANGED <<pdf_document, current_pdf_path, current_page, total_pages,
                            page_cache, threads, clock, timers>>
             /\ UNCHANGED <<fmvars, backupvars, screenvars>>
        ELSE IF pdf_document = "Closed" /\ closed_raises
        THEN \* testing or closing a document that is already closed may raise
             /\ page_label' = ErrorLabel("Failed to load PDF")
             /\ texture' = NoImage
             /\ UNCHANGED <<pdf_document, current_pdf_path, current_page, total_pages,
                            page_cache, threads, clock, timers>>
             /\ UNCHANGED <<fmvars, backupvars, screenvars>>
        ELSE IF ~Opens(path)
        THEN \* the previous document is closed (mobile: cleanup_resources) before
             \* fitz.open raises
             /\ pdf_document' = IF ui = "mobile" THEN "None" ELSE closed(pdf_document)
             /\ page_cache' = IF ui = "mobile" THEN <<>> ELSE page_cache
             /\ page_label' = ErrorLabel("Failed to load PDF")
             /\ texture' = NoImage
             /\ UNCHANGED <<current_pdf_path, current_page, total_pages, threads, clock, timers>>
             /\ UNCHANGED <<fmvars, backupvars, screenvars>>
        ELSE IF ~is_pdf(path)
        THEN \* the previous document is closed and replaced before is_pdf is looked at
             /\ pdf_document' = path
             /\ page_cache' = IF ui = "mobile" THEN <<>> ELSE page_cache
             /\ page_label' = ErrorLabel("Invalid PDF file")
             /\ texture' = NoImage
             /\ UNCHANGED <<current_pdf_path, current_page, total_pages, threads, clock, timers>>
             /\ UNCHANGED <<fmvars, backupvars, screenvars>>
        ELSE /\ Len(clock) < MaxClock
             /\ BagCardinality(threads) < ThreadLimit(ui)
             /\ pdf_document' = path
             /\ current_pdf_path' = path
             /\ total_pages' = PageCount(path)
             /\ current_page' = 1
             /\ page_cache' = <<>>
             /\ page_label' = update_page_label(1, PageCount(path))
             /\ clock' = clock \o render_page_async(<<>>, 1).sched
             /\ threads' = threads (+) Started(render_page_async(<<>>, 1).start, "navigation")
             /\ IF ui = "desktop"
                THEN timers < MaxTimers /\ timers' = timers + 1
                ELSE timers' = timers
             /\ UNCHANGED texture
             /\ UNCHANGED <<fmvars, backupvars, screenvars>>

\* mobile go_back: cleanup_resources, then the main screen is shown
GoBack ==
    /\ calls < MaxMobileCalls
    /\ calls' = calls + 1
    /\ pdf_document' = "None"
    /\ page_cache' = <<>>
    /\ UNCHANGED <<current_pdf_path, current_page, total_pages, texture, page_label,
                   threads, clock, timers>>
    /\ UNCHANGED <<fmvars, backupvars, screenvars>>

\* the delayed callback of the desktop viewer: preload_adjacent_pages
PreloadAdjacentPages ==
    \E pages \in {PreloadPages(page_cache, current_pdf_path, pdf_document,
                               current_page, total_pages)} :
        /\ timers > 0
        /\ BagCardinality(threads) + Cardinality(pages) <= MaxThreads
        /\ timers' = timers - 1
        /\ threads' = threads (+) Started(pages, "preload")
        /\ UNCHANGED <<pdf_document, current_pdf_path, current_page, total_pages,
                       page_cache, texture, page_label, clock, calls>>
        /\ UNCHANGED <<fmvars, backupvars, screenvars>>

\* The Clock runs its callbacks on the UI thread in the order they were scheduled.
RunShowLoading ==
    /\ clock # <<>>
    /\ Head(clock).fn = "show_loading"
    /\ clock' = Tail(clock)
    /\ page_label' = Label("loading", current_page, 0, "")
    /\ UNCHANGED <<pdf_document, current_pdf_path, current_page, total_pages, page_cache,
                   texture, threads, timers, calls>>
    /\ UNCHANGED <<fmvars, backupvars, screenvars>>

RunDisplayCachedPage ==
    /\ clock # <<>>
    /\ Head(clock).fn = "display_cached_page"
    /\ clock' = Tail(clock)
    /\ texture' = IF InCache(page_cache, Head(clock).page)
                  THEN CacheGet(page_cache, Head(clock).page)
                  ELSE texture
    /\ UNCHANGED <<pdf_document, current_pdf_path, current_page, total_pages, page_cache,
                   page_label, threads, timers, calls>>
    /\ UNCHANGED <<fmvars, backupvars, screenvars>>

RunDisplayPageImage ==
    /\ clock # <<>>
    /\ Head(clock).fn = "display_page_image"
    /\ clock' = Tail(clock)
    /\ texture' = Head(clock).image
    /\ UNCHANGED <<pdf_document, current_pdf_path, current_page, total_pages, page_cache,
                   page_label, threads, timers, calls>>
    /\ UNCHANGED <<fmvars, backupvars, screenvars>>

RunShowError ==
    /\ clock # <<>>
    /\ Head(clock).fn = "show_error"
    /\ clock' = Tail(clock)
    /\ page_label' = ErrorLabel(Head(clock).msg)
    /\ texture' = NoImage
    /\ UNCHANGED <<pdf_document, current_pdf_path, current_page, total_pages, page_cache,
                   threads, timers, calls>>
    /\ UNCHANGED <<fmvars, backupvars, screenvars>>

\* _render_page_thread up to the call of add_to_cache: the page is rendered
\* from whatever self.pdf_document is at that moment
ThreadRender(ui) ==
    \E t \in BagToSet(threads) :
        /\ t.pc = "start"
        /\ IF pdf_document = "None"
           THEN /\ Len(clock) < MaxClock
                /\ clock' = Append(clock, Callback("show_error", 0, NoImage, "No PDF loaded", t.origin))
                /\ threads' = Finish(t)
           ELSE IF pdf_document = "Closed" \/ t.page > PageCount(pdf_document)
           THEN /\ Len(clock) < MaxClock
                /\ clock' = Append(clock, Callback("show_error", 0, NoImage, "Render error", t.origin))
                /\ threads' = Finish(t)
           ELSE /\ threads' = Step(t, [t EXCEPT !.pc = "check",
                                                  !.image = Image(pdf_document, t.page)])
                /\ clock' = clock
        /\ UNCHANGED <<pdf_document, current_pdf_path, current_page, total_pages, page_cache,
                       texture, page_label, timers, calls>>
        /\ UNCHANGED <<fmvars, backupvars, screenvars>>

\* add_to_cache, called by the render thread: the test of the size
ThreadCacheCheck(ui) ==
    \E t \in BagToSet(threads) :
        /\ t.pc = "check"
        /\ threads' = Step(t, [t EXCEPT !.pc = IF Len(page_cache) >= max_cache_size(ui)
                                                THEN "evict" ELSE "insert"])
        /\ UNCHANGED <<pdf_document, current_pdf_path, current_page, total_pages, page_cache,
                       texture, page_label, clock, timers, calls>>
        /\ UNCHANGED <<fmvars, backupvars, screenvars>>

\* add_to_cache: what to evict is chosen from the keys and self.current_page
ThreadCacheEvict(ui) ==
    \E t \in BagToSet(threads) :
        /\ t.pc = "evict"
        /\ \E chosen \in {Evict(ui, page_cache, current_page)} :
              /\ page_cache' = chosen.cache
              /\ threads' = Step(t, [t EXCEPT !.pc = IF chosen.victims = <<>>
                                                     THEN "insert" ELSE "remove",
                                              !.victims = chosen.victims])
        /\ UNCHANGED <<pdf_document, current_pdf_path, current_page, total_pages,
                       texture, page_label, clock, timers, calls>>
        /\ UNCHANGED <<fmvars, backupvars, screenvars>>

\* add_to_cache: the chosen pages are removed; a KeyError ends the thread in
\* the except clause of _render_page_thread
ThreadCacheRemove(ui) ==
    \E t \in BagToSet(threads) :
        /\ t.pc = "remove"
        /\ \E removed \in {delete_each(page_cache, t.victims)} :
              /\ page_cache' = removed.cache
              /\ IF removed.raised
                 THEN /\ Len(clock) < MaxClock
                      /\ clock' = Append(clock, Callback("show_error", 0, NoImage,
                                                         "Render error", t.origin))
                      /\ threads' = Finish(t)
                 ELSE /\ clock' = clock
                      /\ threads' = Step(t, [t EXCEPT !.pc = "insert", !.victims = <<>>])
        /\ UNCHANGED <<pdf_document, current_pdf_path, current_page, total_pages,
                       texture, page_label, timers, calls>>
        /\ UNCHANGED <<fmvars, backupvars, screenvars>>

\* add_to_cache: self.page_cache[page_number] = image_data
ThreadCacheInsert(ui) ==
    \E t \in BagToSet(threads) :
        /\ t.pc = "insert"
        /\ page_cache' = CachePut(page_cache, t.page, t.image)
        /\ threads' = Step(t, [t EXCEPT !.pc = "schedule"])
        /\ UNCHANGED <<pdf_document, current_pdf_path, current_page, total_pages,
                       texture, page_label, clock, timers, calls>>
        /\ UNCHANGED <<fmvars, backupvars, screenvars>>

\* _render_page_thread after add_to_cache: Clock.schedule_once(display_page_image)
ThreadSchedule(ui) ==
    \E t \in BagToSet(threads) :
        /\ t.pc = "schedule"
        /\ Len(clock) < MaxClock
        /\ clock' = Append(clock, Callback("display_page_image", 0, t.image, "", t.origin))
        /\ threads' = Finish(t)
        /\ UNCHANGED <<pdf_document, current_pdf_path, current_page, total_pages, page_cache,
                       texture, page_label, timers, calls>>
        /\ UNCHANGED <<fmvars, backupvars, screenvars>>

(***************************************************************************)
(* Spec: the managers under a changing file system.                        *)
(* SpecObservers: the managers with callbacks being registered and         *)
(* unregistered, every file a valid PDF.                                   *)
(***************************************************************************)
(***************************************************************************)
(* MainScreen (main.py).  It owns a DesktopPDFFileManager on which its     *)
(* on_file_list_changed is the one observer; the observer rebuilds the     *)
(* file items from get_files().  A handler is one step, the manager call   *)
(* and the notification it makes included.                                 *)
(***************************************************************************)
\* FileItemWidget: the path shown and the index its remove button passes on
FileItemWidget(file_path, index) == [file_path |-> file_path, index |-> index]

\* a remove button bound to the loop variable of update_file_list_display,
\* which ends at the last index
bound_index_late(files, index) == Len(files) - 1

\* the index the remove button's lambda passes to on_remove_callback: the
\* index parameter of FileItemWidget.__init__
bound_index(files, index) == index

\* update_file_list_display: one item for each entry of enumerate(get_files())
update_file_list_display(files) ==
    [i \in 1..Len(files) |-> FileItemWidget(files[i], bound_index(files, i - 1))]

NoPath == <<>>

\* the screen after a manager call: on_file_list_changed runs if it notified
after_manager_call(screen, op, out, title) ==
    [files |-> out.sel,
     items |-> IF out.notify THEN update_file_list_display(get_files("desktop", out.sel).value)
               ELSE screen.items,
     op |-> op,
     popup |-> title,
     filename |-> NoPath,
     merge |-> NoPath]

InitMainScreen ==
    main_screen = [files |-> <<>>, items |-> update_file_list_display(<<>>), op |-> "none",
                   popup |-> "", filename |-> NoPath, merge |-> NoPath]

\* on_files_selected: what the file chooser hands over goes to add_files
OnFilesSelected ==
    \E file_paths \in ArgLists :
        /\ Len(file_paths) > 0
        /\ LET out == add_files("desktop", fs, main_screen.files, file_paths)
           IN main_screen' = after_manager_call(main_screen, "on_files_selected", out,
                                IF out.resp.result = "SUCCESS" THEN "Success" ELSE "Error")
        /\ UNCHANGED <<fmvars, viewvars, backupvars>>

\* MainScreen.remove_file, called by the remove button of a file item shown
RemoveFileButton ==
    \E i \in 1..Len(main_screen.items) :
        /\ LET out == remove_file("desktop", main_screen.files, main_screen.items[i].index)
           IN main_screen' = after_manager_call(main_screen, "remove_file", out, "File Removed")
        /\ UNCHANGED <<fmvars, viewvars, backupvars>>

\* MainScreen.clear_files
ClearFilesButton ==
    /\ IF Len(main_screen.files) = 0
       THEN main_screen' = [main_screen EXCEPT !.op = "clear_files", !.popup = "Info"]
       ELSE main_screen' = after_manager_call(main_screen, "clear_files",
                              clear_files("desktop", main_screen.files), "Files Cleared")
    /\ UNCHANGED <<fmvars, viewvars, backupvars>>

\* what the user types into the merge dialog: nothing, m, m.pdf
Filenames == {<<>>, <<"m">>, <<"m", ".", "p", "d", "f">>}

\* show_merge_dialog and the Merge button of its popup
\* (choose_save_location_and_merge): perform_save_dialog is scheduled with
\* the file name, .pdf added if missing
ChooseSaveLocationAndMerge ==
    \E filename \in Filenames :
        /\ main_screen' =
             IF Len(main_screen.files) < 2
             THEN [main_screen EXCEPT !.op = "show_merge_dialog", !.popup = "Error",
                                      !.filename = NoPath, !.merge = NoPath]
             ELSE IF filename = <<>>
             THEN [main_screen EXCEPT !.op = "choose_save_location_and_merge",
                                      !.popup = "Error", !.filename = NoPath,
                                      !.merge = NoPath]
             ELSE [main_screen EXCEPT !.op = "choose_save_location_and_merge",
                      !.popup = "Opening save dialog",
                      !.filename = IF endswith(lower(filename), PdfSuffix) THEN filename
                                   ELSE filename \o PdfSuffix,
                      !.merge = NoPath]
        /\ UNCHANGED <<fmvars, viewvars, backupvars>>

\* the call of core.file_manager_desktop.save_file_dialog_desktop
\* (default_filename, save_path_callback): it opens a popup, hands the path to
\* save_path_callback later and returns None; a call without the callback
\* raises TypeError
save_file_dialog_desktop(arguments) ==
    IF Len(arguments) # 2
    THEN [raised |-> TRUE, value |-> NoPath]
    ELSE [raised |-> FALSE, value |-> NoPath]

\* perform_save_dialog: the popup it ends with and the path it passes to
\* perform_merge_with_path (NoPath: none).  The output directory of the model
\* is writable, so validate_desktop_output_path accepts every path.
perform_save_dialog(entries, filename, now) ==
    LET dialog == save_file_dialog_desktop(<<filename>>)
        output_path == dialog.value
    IN  IF dialog.raised
        THEN [popup |-> "Error showing save dialog", merge |-> NoPath]
        ELSE IF output_path = NoPath
        THEN [popup |-> "Save cancelled by user", merge |-> NoPath]
        ELSE IF /\ path_exists(entries, output_path)
                /\ create_backup_filename(entries, output_path, now) # output_path
        THEN [popup |-> "File exists, saving as",
              merge |-> create_backup_filename(entries, output_path, now)]
        ELSE [popup |-> "Merging", merge |-> output_path]

\* the Clock callback choose_save_location_and_merge scheduled
PerformSaveDialog ==
    \E now \in Times :
        /\ main_screen.filename # NoPath
        /\ LET r == perform_save_dialog(directory, main_screen.filename, now)
           IN main_screen' = [main_screen EXCEPT !.op = "perform_save_dialog",
                                 !.popup = r.popup, !.filename = NoPath,
                                 !.merge = r.merge]
        /\ UNCHANGED <<fmvars, viewvars, backupvars>>

Init == InitManagers /\ InitViewer /\ InitBackup /\ InitMainScreen

Next ==
    \/ AddFiles
    \/ RemoveFile
    \/ MoveFile
    \/ ClearFiles
    \/ MergePdfs
    \/ FsChange

Spec == Init /\ [][Next]_vars

NextObservers ==
    \/ AddFiles
    \/ RemoveFile
    \/ MoveFile
    \/ ClearFiles
    \/ MergePdfs
    \/ GetFiles
    \/ AddObserver
    \/ RemoveObserver

SpecObservers == Init /\ [][NextObservers]_vars

(***************************************************************************)
(* SpecDesktopViewer and SpecMobileViewer: one viewer screen, its render   *)
(* threads and the Clock.                                                  *)
(***************************************************************************)
NextDesktopViewer ==
    \/ LoadPdf("desktop")
    \/ ShowNext("desktop")
    \/ ShowPrevious("desktop")
    \/ JumpToPage("desktop")
    \/ KeyDown
    \/ PreloadAdjacentPages
    \/ RunShowLoading
    \/ RunDisplayCachedPage
    \/ RunDisplayPageImage
    \/ RunShowError
    \/ ThreadRender("desktop")
    \/ ThreadCacheCheck("desktop")
    \/ ThreadCacheEvict("desktop")
    \/ ThreadCacheRemove("desktop")
    \/ ThreadCacheInsert("desktop")
    \/ ThreadSchedule("desktop")

SpecDesktopViewer == Init /\ [][NextDesktopViewer]_vars

NextMobileViewer ==
    \/ LoadPdf("mobile")
    \/ ShowNext("mobile")
    \/ ShowPrevious("mobile")
    \/ JumpToPage("mobile")
    \/ GoBack
    \/ RunShowLoading
    \/ RunDisplayCachedPage
    \/ RunDisplayPageImage
    \/ RunShowError
    \/ ThreadRender("mobile")
    \/ ThreadCacheCheck("mobile")
    \/ ThreadCacheEvict("mobile")
    \/ ThreadCacheRemove("mobile")
    \/ ThreadCacheInsert("mobile")
    \/ ThreadSchedule("mobile")

SpecMobileViewer == Init /\ [][NextMobileViewer]_vars

NextBackup ==
    \/ CreateFile
    \/ DeleteFile
    \/ FillNumbered
    \/ CreateBackupFilename
    \/ CreateMobileBackupFilename

SpecBackup == Init /\ [][NextBackup]_vars

NextMainScreen ==
    \/ OnFilesSelected
    \/ RemoveFileButton
    \/ ClearFilesButton
    \/ FsChange

SpecMainScreen == Init /\ [][NextMainScreen]_vars

NextMergeFlow ==
    \/ OnFilesSelected
    \/ ChooseSaveLocationAndMerge
    \/ PerformSaveDialog
    \/ CreateFile
    \/ DeleteFile
    \/ FillNumbered

SpecMergeFlow == Init /\ [][NextMergeFlow]_vars

(***************************************************************************)
(* Properties of the managers.                                             *)
(***************************************************************************)
ListOps == {"add_files", "remove_file", "move_file", "clear_files"}

Notifying == {"desktop", "mobile"}

PdfNamed == {"/a.pdf", "/b.PDF", "/c.pdf"}

InSeq(s, x) == x \in {s[i] : i \in 1..Len(s)}

\* how many members of the set of positions S are at or before position i
Rank(S, i) == Cardinality({j \in S : j <= i})

\* C1: after any sequence of add_files, remove_file, move_file and
\* clear_files calls, selected_files of the desktop and of the mobile manager
\* never holds the same path twice.
C1_NoDuplicatePaths ==
    \A v \in Notifying :
        \A i, j \in 1..Len(selected_files[v]) :
            i # j => selected_files[v][i] # selected_files[v][j]

\* one add_files call listed a valid path twice and added it
C1_Witness ==
    /\ last.op = "add_files"
    /\ Len(last.args.file_paths) = 2
    /\ last.args.file_paths[1] = last.args.file_paths[2]
    /\ last.resp.desktop.result = "SUCCESS"
    /\ last.resp.mobile.result = "SUCCESS"
    /\ InSeq(selected_files.desktop, last.args.file_paths[1])

C6_ResultsAsClaimed ==
    last.op # "none" =>
        \A v \in Variants : last.resp[v].result \in {"SUCCESS", "ERROR", "CANCELLED"}

\* C6 amended: the results are SUCCESS, ERROR or CANCELLED, except that
\* merge_pdfs of the mobile manager also returns PERMISSION_DENIED.
C6_ResultKinds ==
    last.op # "none" =>
        /\ \A v \in {"base", "desktop"} :
            last.resp[v].result \in {"SUCCESS", "ERROR", "CANCELLED"}
        /\ last.op # "merge_pdfs" =>
            last.resp.mobile.result \in {"SUCCESS", "ERROR", "CANCELLED"}
        /\ last.op = "merge_pdfs" =>
            last.resp.mobile.result \in {"SUCCESS", "ERROR", "CANCELLED", "PERMISSION_DENIED"}

\* the mobile merge was refused for the output location while the desktop
\* merge of the same files to the same place failed with ERROR
C6_Witness ==
    /\ last.op = "merge_pdfs"
    /\ last.args.outdir = "readonly"
    /\ last.resp.mobile.result = "PERMISSION_DENIED"
    /\ last.resp.desktop.result = "ERROR"
    /\ Len(selected_files.desktop) >= 2

\* C7: add_files returns SUCCESS exactly when the call appended at least one
\* path; otherwise it returns ERROR and leaves selected_files unchanged, and
\* the desktop and mobile managers do not call their observers.
C7_AddFilesResult ==
    last.op = "add_files" =>
        \A v \in Variants :
            /\ last.resp[v].result = "SUCCESS" <=>
                /\ Len(selected_files[v]) > Len(last.before[v])
                /\ SubSeq(selected_files[v], 1, Len(last.before[v])) = last.before[v]
            /\ last.resp[v].result # "SUCCESS" =>
                /\ last.resp[v].result = "ERROR"
                /\ selected_files[v] = last.before[v]
                /\ v \in Notifying => ~last.notify[v] /\ last.notified[v] = <<>>

\* a call whose paths are a corrupted file and an already selected one fails
C7_Witness ==
    /\ last.op = "add_files"
    /\ Len(last.args.file_paths) = 2
    /\ fs[last.args.file_paths[1]] = "corrupt"
    /\ InSeq(last.before.desktop, last.args.file_paths[2])
    /\ last.resp.desktop.result = "ERROR"
    /\ last.resp.mobile.result = "ERROR"
    /\ last.resp.base.result = "ERROR"

\* C8: the desktop add_files appends a path exactly when it exists, ends in
\* .pdf in any letter case, is a valid PDF and is not yet selected when it is
\* processed; the appended paths follow the previous entries in input order,
\* the previous entries stay as they were, and every rejected path is
\* reported with the first failing check in the order not found, not a PDF,
\* corrupted, already added.
C8_Eligible(path) == fs[path] # "missing" /\ path \in PdfNamed /\ fs[path] = "valid"

C8_Accepted(i) ==
    /\ C8_Eligible(last.args.file_paths[i])
    /\ ~InSeq(last.before.desktop, last.args.file_paths[i])
    /\ \A j \in 1..(i - 1) : last.args.file_paths[j] # last.args.file_paths[i]

C8_Reason(path) ==
    IF fs[path] = "missing" THEN "not found"
    ELSE IF path \notin PdfNamed THEN "not a PDF"
    ELSE IF fs[path] # "valid" THEN "corrupted"
    ELSE "already added"

C8_AcceptedSet == {i \in 1..Len(last.args.file_paths) : C8_Accepted(i)}

C8_RejectedSet == {i \in 1..Len(last.args.file_paths) : ~C8_Accepted(i)}

C8_DesktopAddFiles ==
    (last.op = "add_files" /\ Len(last.args.file_paths) > 0) =>
        /\ Len(selected_files.desktop) = Len(last.before.desktop) + Cardinality(C8_AcceptedSet)
        /\ SubSeq(selected_files.desktop, 1, Len(last.before.desktop)) = last.before.desktop
        /\ \A i \in C8_AcceptedSet :
            selected_files.desktop[Len(last.before.desktop) + Rank(C8_AcceptedSet, i)]
                = last.args.file_paths[i]
        /\ Len(last.resp.desktop.message.details) = Cardinality(C8_RejectedSet)
        /\ \A i \in C8_RejectedSet :
            last.resp.desktop.message.details[Rank(C8_RejectedSet, i)]
                = [name |-> file_name[last.args.file_paths[i]],
                   why |-> C8_Reason(last.args.file_paths[i])]

\* a missing file without the .pdf ending is rejected as not found and the
\* path with the upper-case ending that follows it is appended
C8_Witness ==
    /\ last.op = "add_files"
    /\ last.args.file_paths = <<"/n.txt", "/b.PDF">>
    /\ fs["/n.txt"] = "missing"
    /\ Len(last.before.desktop) > 0
    /\ selected_files.desktop = Append(last.before.desktop, "/b.PDF")
    /\ last.resp.desktop.message.details = <<[name |-> <<"n", ".", "t", "x", "t">>, why |-> "not found"]>>

\* C9: remove_file(i) with 0 <= i < len(selected_files) returns SUCCESS and
\* removes exactly the element at position i, the others keeping their order;
\* for any other i it returns ERROR, leaves selected_files unchanged and does
\* not call the observers.
C9_RemoveFile ==
    last.op = "remove_file" =>
        \A v \in Variants :
            IF 0 <= last.args.index /\ last.args.index < Len(last.before[v])
            THEN /\ last.resp[v].result = "SUCCESS"
                 /\ Len(selected_files[v]) = Len(last.before[v]) - 1
                 /\ \A k \in 1..Len(selected_files[v]) :
                        selected_files[v][k] =
                            IF k <= last.args.index THEN last.before[v][k]
                            ELSE last.before[v][k + 1]
            ELSE /\ last.resp[v].result = "ERROR"
                 /\ selected_files[v] = last.before[v]
                 /\ ~last.notify[v]
                 /\ last.notified[v] = <<>>

\* the middle one of three files was removed
C9_Witness ==
    /\ last.op = "remove_file"
    /\ Len(last.before.desktop) = 3
    /\ last.args.index = 1
    /\ last.resp.desktop.result = "SUCCESS"
    /\ Len(selected_files.mobile) = 2

\* C10: move_file(from_index, to_index) with both indices in range returns
\* SUCCESS and leaves selected_files a permutation of its previous contents
\* with the moved path at to_index and the other paths in their previous
\* relative order; with an index out of range it returns ERROR, leaves
\* selected_files unchanged and does not call the observers.
C10_MoveFile ==
    last.op = "move_file" =>
        \A v \in Variants :
            IF /\ 0 <= last.args.index /\ last.args.index < Len(last.before[v])
               /\ 0 <= last.args.to_index /\ last.args.to_index < Len(last.before[v])
            THEN /\ last.resp[v].result = "SUCCESS"
                 /\ Len(selected_files[v]) = Len(last.before[v])
                 /\ \A x \in Paths :
                        Cardinality({k \in 1..Len(selected_files[v]) : selected_files[v][k] = x})
                            = Cardinality({k \in 1..Len(last.before[v]) : last.before[v][k] = x})
                 /\ selected_files[v][last.args.to_index + 1]
                        = last.before[v][last.args.index + 1]
                 /\ \A k \in 1..(Len(selected_files[v]) - 1) :
                        (IF k <= last.args.to_index THEN selected_files[v][k]
                         ELSE selected_files[v][k + 1])
                        = (IF k <= last.args.index THEN last.before[v][k]
                           ELSE last.before[v][k + 1])
            ELSE /\ last.resp[v].result = "ERROR"
                 /\ selected_files[v] = last.before[v]
                 /\ ~last.notify[v]
                 /\ last.notified[v] = <<>>

\* the first of three files was moved to the end
C10_Witness ==
    /\ last.op = "move_file"
    /\ Len(last.before.desktop) = 3
    /\ last.args.index = 0
    /\ last.args.to_index = 2
    /\ last.resp.desktop.result = "SUCCESS"
    /\ selected_files.desktop # last.before.desktop

\* C11: clear_files always returns SUCCESS, leaves selected_files empty and
\* reports the number of entries selected_files had just before the call.
C11_ClearFiles ==
    last.op = "clear_files" =>
        \A v \in Variants :
            /\ last.resp[v].result = "SUCCESS"
            /\ selected_files[v] = <<>>
            /\ last.resp[v].message.text = "Cleared files"
            /\ last.resp[v].message.count = Len(last.before[v])

\* three files were selected and cleared
C11_Witness ==
    /\ last.op = "clear_files"
    /\ Len(last.before.desktop) = 3
    /\ last.resp.desktop.message.count = 3
    /\ last.resp.mobile.message.count = 3
    /\ selected_files.desktop = <<>>

\* the output locations for which os.access(dirname(output_path), os.W_OK) is false
WriteDenied == {"absent", "uncreatable", "readonly", "none"}

\* C12 as stated: in the mobile manager, whenever at least one file is
\* selected and write access to the output directory is denied, merge_pdfs
\* returns PERMISSION_DENIED with the message 'No write permission ...'.
C12_PermissionDeniedWithOneFile ==
    (/\ last.op = "merge_pdfs"
     /\ Len(selected_files.mobile) >= 1
     /\ last.args.outdir \in WriteDenied) =>
        /\ last.resp.mobile.result = "PERMISSION_DENIED"
        /\ last.resp.mobile.message.text = "No write permission for output location"

\* the texts of the three variants that say 'at least 2'
AtLeastTwoTexts ==
    {"Need at least 2 PDFs to merge", "Select at least 2 PDFs to merge",
     "Need at least 2 files to merge"}

SomeMissing(v) == \E i \in 1..Len(selected_files[v]) : fs[selected_files[v][i]] = "missing"

C15_MergeNeverRaises ==
    last.op = "merge_pdfs" =>
        \A v \in Variants :
            /\ last.resp[v].result \in {"SUCCESS", "ERROR", "PERMISSION_DENIED"}
            /\ (\/ \E i \in 1..Len(selected_files[v]) : fs[selected_files[v][i]] # "valid"
                \/ last.args.outdir \in {"uncreatable", "readonly", "locked_perm", "locked_other"})
                    => last.resp[v].result # "SUCCESS"
            /\ selected_files[v] = last.before[v]
            /\ ~last.notify[v]
            /\ last.notified[v] = <<>>

\* two valid files and an output directory that cannot be created
C15_Witness ==
    /\ last.op = "merge_pdfs"
    /\ Len(selected_files.base) >= 2
    /\ \A i \in 1..Len(selected_files.base) : fs[selected_files.base[i]] = "valid"
    /\ last.args.outdir = "uncreatable"
    /\ last.resp.base.result = "ERROR"
    /\ last.resp.desktop.result = "ERROR"
    /\ last.resp.mobile.result = "PERMISSION_DENIED"

\* C16: get_files returns a copy and every observer receives a copy: when
\* the caller of get_files changes the list it got, or a callback changes the
\* list it was given, selected_files stays what the manager made it and the
\* callbacks notified later in the same notification still receive a list
\* equal to selected_files.
C16_CopiesHandedOut ==
    /\ last.op = "get_files" =>
        \A v \in Variants :
            /\ last.returned[v] = last.before[v]
            /\ selected_files[v] = last.before[v]
    /\ last.op \in ListOps =>
        \A v \in Variants :
            \A i \in 1..Len(last.notified[v]) :
                last.notified[v][i].files = selected_files[v]

\* the first of two callbacks changed the list it was given
C16_Witness ==
    /\ last.op = "add_files"
    /\ selected_files.desktop # <<>>
    /\ selected_files.desktop # last.before.desktop
    /\ Len(last.notified.desktop) = 2
    /\ last.notified.desktop[1].observer \in Mutating
    /\ last.notified.desktop[1].after # last.notified.desktop[1].files
    /\ last.notified.desktop[2].files = selected_files.desktop
    /\ last.notified.mobile[2].files = selected_files.mobile

\* C28: the three managers are equivalent as holders of the file list: under
\* the same calls and the same file system their selected_files are equal
\* after every call, and every add_files, remove_file, move_file and
\* clear_files call returns the same result kind in all three.
C28_VariantsAgree ==
    /\ selected_files.base = selected_files.desktop
    /\ selected_files.desktop = selected_files.mobile
    /\ last.op \in ListOps =>
          /\ last.resp.base.result \in {"SUCCESS", "ERROR"}
          /\ last.resp.base.result = last.resp.desktop.result
          /\ last.resp.desktop.result = last.resp.mobile.result

\* add_files of a new file and of one already selected: the base manager
\* skips the second silently, the others report it, and all three agree
C28_Witness ==
    /\ last.op = "add_files"
    /\ Len(last.args.file_paths) = 2
    /\ InSeq(last.before.desktop, last.args.file_paths[2])
    /\ ~InSeq(last.before.desktop, last.args.file_paths[1])
    /\ last.resp.base.result = "SUCCESS"
    /\ last.resp.base.message # last.resp.desktop.message
    /\ Len(selected_files.base) = Len(last.before.base) + 1
    /\ selected_files.base = selected_files.mobile

(***************************************************************************)
(* Properties of the backup names.                                         *)
(***************************************************************************)
\* the extension os.path.splitext gives for a path
extension(p) == splitext(basename(p)).ext

\* the timestamped name and every numbered name of the latest call are taken
AllNamesTaken ==
    /\ path_exists(directory, tagged_path(backup.original_path, strftime(backup.ui, backup.now)))
    /\ \A counter \in 1..(counter_limit(backup.ui) - 1) :
          path_exists(directory,
              tagged_path(backup.original_path, format_counter(backup.ui, counter)))

\* C17 as stated: create_backup_filename returns original_path unchanged when
\* it does not exist; when it exists the returned path differs from
\* original_path, lies in the same directory, has the same extension and
\* names a file that does not exist, for every state of the directory.
C17_BackupNameAsClaimed ==
    backup.ui # "none" =>
        IF ~path_exists(directory, backup.original_path)
        THEN backup.result = backup.original_path
        ELSE /\ backup.result # backup.original_path
             /\ dirname(backup.result) = dirname(backup.original_path)
             /\ extension(backup.result) = extension(backup.original_path)
             /\ ~path_exists(directory, backup.result)

\* C17 amended: create_backup_filename returns original_path unchanged when
\* it does not exist, and also when it exists but the timestamped name and
\* every numbered name (001..999 on desktop, 1..99 on mobile) exist too; in
\* every other case the returned path differs from original_path, lies in the
\* same directory, has the same extension and names a file that does not
\* exist.
C17_BackupName ==
    backup.ui # "none" =>
        IF ~path_exists(directory, backup.original_path) \/ AllNamesTaken
        THEN backup.result = backup.original_path
        ELSE /\ backup.result # backup.original_path
             /\ dirname(backup.result) = dirname(backup.original_path)
             /\ extension(backup.result) = extension(backup.original_path)
             /\ ~path_exists(directory, backup.result)

\* the timestamped name and the numbered names 001..998 exist: 999 is returned
C17_Witness ==
    /\ backup.ui = "desktop"
    /\ backup.original_path = MergedPdf
    /\ path_exists(directory, MergedPdf)
    /\ backup.result = <<"/", "o", "/", "m", "_", "9", "9", "9", ".", "p", "d", "f">>
    /\ ~path_exists(directory, backup.result)

(***************************************************************************)
(* Properties of the viewers.                                              *)
(***************************************************************************)
\* a step taken by a render thread, as opposed to a handler or a Clock
\* callback on the UI thread
BackgroundStep(ui) ==
    \/ ThreadRender(ui)
    \/ ThreadCacheCheck(ui)
    \/ ThreadCacheEvict(ui)
    \/ ThreadCacheRemove(ui)
    \/ ThreadCacheInsert(ui)
    \/ ThreadSchedule(ui)

\* C2 as stated: in every reachable state of the desktop viewer, whatever
\* the handler calls and the interleaving of the render threads, page_cache
\* has at most max_cache_size (5) entries.
C2_DesktopCacheBounded == Len(page_cache) <= max_cache_size("desktop")

\* C3 as stated: in every reachable state of the mobile viewer, whatever the
\* handler calls and the interleaving of the render threads, page_cache has
\* at most max_cache_size (2) entries.
C3_MobileCacheBounded == Len(page_cache) <= max_cache_size("mobile")

\* C5 as stated: a render thread only renders and hands its result to the
\* UI thread; no step of a render thread changes page_cache, the displayed
\* texture or the page label.
C5_ThreadsOnlyRender ==
    [][(BackgroundStep("desktop") \/ BackgroundStep("mobile"))
            => UNCHANGED <<page_cache, texture, page_label>>]_vars

\* the two steps of add_to_cache that take entries out of the cache
EvictionStep(ui) == ThreadCacheEvict(ui) \/ ThreadCacheRemove(ui)

\* the pages a step takes out of the cache
EvictedPages == CachedPages(page_cache) \ CachedPages(page_cache')

\* the cached pages further than 2 from current_page
FarPages == {p \in CachedPages(page_cache) : Abs(p - current_page) > 2}

\* C18 as stated: when the desktop add_to_cache evicts, the evicted page is
\* always one whose distance from current_page is greater than 2, so
\* current_page and the pages within 2 of it are never evicted.
C18_EvictsOnlyFarPages ==
    [][EvictionStep("desktop") =>
          \A p \in EvictedPages : Abs(p - current_page) > 2]_vars

\* C18 amended: when the desktop add_to_cache evicts, it chooses one of the
\* cached pages furthest from current_page among those further than 2 from
\* it, and removes that page; when no cached page is further than 2 from
\* current_page it removes the oldest entry of the cache instead.
C18_EvictsFurthestOrOldest ==
    [][/\ ThreadCacheEvict("desktop") =>
            IF FarPages # {}
            THEN /\ EvictedPages = {}
                 /\ \E t \in BagToSet(threads') :
                        /\ t.pc = "remove"
                        /\ Len(t.victims) = 1
                        /\ t.victims[1] \in FarPages
                        /\ \A q \in FarPages :
                              Abs(q - current_page) <= Abs(t.victims[1] - current_page)
            ELSE EvictedPages = IF page_cache = <<>> THEN {} ELSE {page_cache[1].page}
       /\ ThreadCacheRemove("desktop") =>
            \E t \in BagToSet(threads) :
                t.pc = "remove" /\ EvictedPages \subseteq {t.victims[1]}]_vars

\* a full cache from which a page further than 2 from current_page was chosen
C18_Witness ==
    /\ current_pdf_path = "/long.pdf"
    /\ Len(page_cache) >= max_cache_size("desktop")
    /\ \E t \in BagToSet(threads) :
          /\ t.pc = "remove"
          /\ Len(t.victims) = 1
          /\ Abs(t.victims[1] - current_page) > 2
          /\ InCache(page_cache, t.victims[1])

\* C19 as stated: in the desktop viewer a render started by
\* preload_adjacent_pages never changes the displayed image.
C19_PreloadKeepsImage ==
    [][(RunDisplayPageImage /\ Head(clock).origin = "preload") =>
          texture' = texture]_vars

\* C20 as stated: in the mobile viewer, right after show_next, show_previous
\* or jump_to_page every key of page_cache is current_page, current_page - 1
\* or current_page + 1; and when add_to_cache evicts because the cache is
\* full it never removes the entry of current_page.
C20_MobileCacheAroundCurrent ==
    [][/\ (ShowNext("mobile") \/ ShowPrevious("mobile") \/ JumpToPage("mobile")) =>
            CachedPages(page_cache') \subseteq
                {current_page' - 1, current_page', current_page' + 1}
       /\ EvictionStep("mobile") =>
            (current_page \in CachedPages(page_cache) =>
                current_page \in CachedPages(page_cache'))]_vars

\* C22: once a document with at least one page is loaded, current_page lies in
\* 1..total_pages, whatever show_next, show_previous, jump_to_page (with any
\* integer), the Home and End keys and load_pdf have done.
C22_CurrentPageInRange ==
    total_pages > 0 => 1 <= current_page /\ current_page <= total_pages

\* the last page of the long document has been reached by navigation
C22_Witness ==
    /\ pdf_document = "/long.pdf"
    /\ total_pages = LongPages
    /\ current_page = total_pages
    /\ calls >= 2

\* a step of load_pdf that ended in show_error
FailedLoad ==
    /\ calls' = calls + 1
    /\ page_label'.kind = "error"
    /\ page_label'.msg \in {"PDF file not found", "Failed to load PDF", "Invalid PDF file"}

\* C25: a load_pdf that fails (file missing, opening raises, not a PDF) leaves
\* pdf_document, current_pdf_path, total_pages, current_page and page_cache as
\* they were.
C25_FailedLoadKeepsDocument ==
    [][FailedLoad =>
          UNCHANGED <<pdf_document, current_pdf_path, total_pages, current_page,
                      page_cache>>]_vars

\* the entries of a cache
Entries(cache) == {cache[i] : i \in 1..Len(cache)}

\* C24: while a successfully loaded document is the current one, nothing
\* rendered from another document is put into page_cache or on the screen: a
\* thread started under an earlier document neither inserts nor displays its
\* result.
C24_StaleRenderDiscarded ==
    [][(pdf_document' = current_pdf_path' /\ pdf_document' # "None") =>
          /\ \A entry \in Entries(page_cache') \ Entries(page_cache) :
                entry.image.doc = pdf_document'
          /\ (texture' # texture /\ texture' # NoImage) => texture'.doc = pdf_document']_vars

\* every render thread has finished, every scheduled callback has run and no
\* delayed preload is pending
Quiescent == threads = EmptyBag /\ clock = <<>> /\ timers = 0

\* C23: on a successfully loaded document, once every render thread has
\* finished and every scheduled callback has run, the image on screen is the
\* rendering of current_page, in whatever order the threads completed (states
\* in which an error is shown are left aside).
C23_SettlesOnCurrentPage ==
    (/\ Quiescent
     /\ pdf_document = current_pdf_path
     /\ pdf_document # "None"
     /\ total_pages > 0
     /\ page_label.kind # "error") => texture = Image(pdf_document, current_page)

\* the Clock callbacks Kivy's main loop runs, the delayed preload included
ClockStep ==
    \/ RunShowLoading
    \/ RunDisplayCachedPage
    \/ RunDisplayPageImage
    \/ RunShowError
    \/ PreloadAdjacentPages

\* the desktop viewer under its scheduling: a started thread runs to its end
\* and the main loop runs every scheduled callback; user calls are not forced
SpecDesktopViewerFair ==
    /\ SpecDesktopViewer
    /\ WF_vars(BackgroundStep("desktop"))
    /\ WF_vars(ClockStep)

\* C26: whenever the label shows the loading text, it eventually shows the
\* page counter of current_page again (or an error message), without any
\* further user action.
C26_LoadingGivesWayToCounter ==
    (page_label.kind = "loading") ~>
        \/ page_label.kind = "counter" /\ page_label.page = current_page
        \/ page_label.kind = "error"

(***************************************************************************)
(* Properties of MainScreen.                                               *)
(***************************************************************************)
\* C27: after every handler of MainScreen the file items shown are the
\* entries of file_manager.get_files(), in order, and the index bound to the
\* remove button of each item is the position of its file in selected_files.
C27_ItemsShowSelectedFiles ==
    /\ Len(main_screen.items) = Len(main_screen.files)
    /\ \A i \in 1..Len(main_screen.items) :
          /\ main_screen.items[i].file_path = main_screen.files[i]
          /\ main_screen.items[i].index = i - 1

\* a remove button has been pressed and two files are still shown
C27_Witness ==
    /\ main_screen.op = "remove_file"
    /\ main_screen.popup = "File Removed"
    /\ Len(main_screen.items) = 2

====
